---- MODULE Spec2Model ----
(***************************************************************************)
(* Task-conditioned environments (Bernoulli / Gaussian bandits,            *)
(* HalfCheetahVel / HalfCheetahDir) and the base Sampler of maml_rl.       *)
(*                                                                         *)
(* Units.  Bandit means and Gaussian rewards are counted in 1/MeanScale    *)
(* (MeanScale = 2: the value 1 is 0.5, the value 2 is 1.0); Bernoulli      *)
(* rewards are 0 or 1.  Velocities are whole numbers, dt is one time unit. *)
(* ctrl_cost_weight is counted in tenths, control cost and total           *)
(* locomotion reward in twentieths (0.5 * 0.1 = 1/20).                     *)
(*                                                                         *)
(* A value that may be None is a sequence of length 0 or 1.                *)
(***************************************************************************)
EXTENDS Integers, Sequences, FiniteSets, TLC

VARIABLES
    variant,     \* the environment class the instances are built from
    std,         \* GaussianBanditEnv.std
    ctrl_cost_weight, \* HalfCheetahEnv._ctrl_cost_weight (tenths)
    env,         \* per instance: _task, _means, _goal_vel, _goal_dir, qpos[0]
    np_random,   \* per instance: state of self.np_random
    lastArg,     \* per instance: argument of the latest reset_task call
    seeded,      \* per instance: the seed np_random's state is determined by
    ret,         \* outcome of the latest environment call
    probe,       \* an earlier sample_tasks outcome drawn right after seeding
    sampler,     \* the Sampler object
    senv,        \* the environment handle the Sampler was given or made
    sret         \* outcome of the latest Sampler call

envVars == <<variant, std, ctrl_cost_weight, env, np_random, lastArg, seeded, ret, probe>>
vars == <<variant, std, ctrl_cost_weight, env, np_random, lastArg, seeded, ret, probe,
          sampler, senv, sret>>

-----------------------------------------------------------------------------
(* Bounds of the model *)

RngPeriod == 4      \* number of states of a random source
MaxSeed == 1        \* seeds are 0..MaxSeed
MaxTasks == 2       \* sample_tasks(num_tasks) with num_tasks in 1..MaxTasks
MaxPos == 1         \* |qpos[0]| <= MaxPos
K == 2              \* number of arms the bandits are built with

(* Program values *)

MeanScale == 2      \* unit of a mean: 1/MeanScale
DefaultMean == 1    \* np.full((k,), 0.5)
DefaultStd == 1     \* std=1.0
DefaultVelocity == 1   \* task={"velocity": 1.0}
DefaultGoalVel == 0    \* self._task.get("velocity", 0.0)
DefaultGoalDir == 1    \* task.get("direction", 1)
Low == 0            \* low=0.0
High == 2           \* high=2.0
DefaultCtrlCostWeight == 1  \* ctrl_cost_weight=0.1
StepCtrlCostWeight == 1     \* the literal 1e-1 in step

One == {1}          \* a single environment instance
Envs == {1, 2}      \* two instances built from the same class and arguments
Variants == {"BernoulliBandit", "GaussianBandit", "HalfCheetahVel", "HalfCheetahDir"}
Bandits == {"BernoulliBandit", "GaussianBandit"}
Locomotion == {"HalfCheetahVel", "HalfCheetahDir"}
Seeds == 0..MaxSeed
RngStates == 0..(RngPeriod - 1)

-----------------------------------------------------------------------------
(* Tasks: Python dicts, as functions from key to value *)

Dict(key, v) == [f \in {key} |-> v]
EmptyTask == [f \in {} |-> 0]

\* the key each variant's reset_task reads
TaskKey(v) ==
    IF v \in Bandits THEN "mean"
    ELSE IF v = "HalfCheetahVel" THEN "velocity" ELSE "direction"

\* mean vectors of length K: arm 1 has value a, every other arm value b
MeanVec(a, b) == [i \in 1..K |-> IF i = 1 THEN a ELSE b]

\* the tasks a caller passes in: complete ones, the empty one, one of another variant
TaskPool(v) ==
    IF v \in Bandits
    THEN {Dict("mean", MeanVec(MeanScale, 0)), Dict("mean", MeanVec(0, MeanScale)),
          EmptyTask, Dict("velocity", 2)}
    ELSE IF v = "HalfCheetahVel"
    THEN {Dict("velocity", 0), Dict("velocity", 2), EmptyTask, Dict("direction", 1)}
    ELSE {Dict("direction", 1), Dict("direction", -1), EmptyTask, Dict("velocity", 2)}

\* dict.get(key, default)
Get(d, key, default) == IF key \in DOMAIN d THEN d[key] ELSE default

-----------------------------------------------------------------------------
(* The random source: a deterministic generator with RngPeriod states *)

RngNext(s) == (s + 1) % RngPeriod

RECURSIVE Advance(_, _)
Advance(s, n) == IF n = 0 THEN s ELSE Advance(RngNext(s), n - 1)

\* seeding.np_random(seed): the state a seed determines
SeedState(seed) == (2 * seed + 1) % RngPeriod

\* a uniform draw in [0, 1), in units of 1/MeanScale
Rand(s) == s % MeanScale

\* a standard normal draw, one of -1, 0, 1
StdNormal(s) == (s % 3) - 1

\* np_random.binomial(1, p): 1 when the uniform draw is below p
BinomialOffByOne(s, p) == IF Rand(s) <= p THEN 1 ELSE 0
Binomial(s, p) == IF Rand(s) < p THEN 1 ELSE 0

\* np_random.normal(mean, std), in units of 1/MeanScale
Normal(s, mean, sd) == mean + MeanScale * sd * StdNormal(s)

\* np_random.uniform(low, high)
Uniform(s, low, high) == low + ((high - low) * Rand(s)) \div MeanScale

\* the random source instance e draws from: its own self.np_random
SharedSource(e) == 1
Source(e) == e

-----------------------------------------------------------------------------
(* Construction *)

\* BernoulliBanditEnv.__init__ / GaussianBanditEnv.__init__
BanditInit(task) ==
    [task |-> task, means |-> Get(task, "mean", MeanVec(DefaultMean, DefaultMean)),
     goal_vel |-> 0, goal_dir |-> 0, qpos |-> 0]

\* HalfCheetahVelEnv.__init__: arg is <<"float", v>> or <<"dict", task>>
VelInit(arg) ==
    LET t == IF arg[1] = "float" THEN Dict("velocity", arg[2]) ELSE arg[2]
    IN [task |-> t, means |-> <<>>, goal_vel |-> Get(t, "velocity", DefaultGoalVel),
        goal_dir |-> 0, qpos |-> 0]

\* HalfCheetahDirEnv.__init__
DirInit(task) ==
    [task |-> task, means |-> <<>>, goal_vel |-> 0,
     goal_dir |-> Get(task, "direction", DefaultGoalDir), qpos |-> 0]

\* the environments a constructor call of variant v can produce
Constructed(v) ==
    IF v \in Bandits THEN {BanditInit(t) : t \in TaskPool(v)}
    ELSE IF v = "HalfCheetahVel"
    THEN {VelInit(<<"dict", t>>) : t \in TaskPool(v) \cup {Dict("velocity", DefaultVelocity)}}
         \cup {VelInit(<<"float", x>>) : x \in {0, 2}}
    ELSE {DirInit(t) : t \in TaskPool(v)}

\* the outcome of a call: what it returned (exc = "none") or the exception raised
NoRet ==
    [e |-> 0, op |-> "none", exc |-> "none", action |-> <<>>, obs |-> <<>>,
     reward |-> 0, done |-> FALSE, truncated |-> FALSE, info |-> <<>>,
     used |-> <<>>, vel |-> <<>>, drew |-> FALSE, tasks |-> <<>>, n |-> 0, seed |-> <<>>]

\* no Sampler yet: `cls` is the class the program defines, the base Sampler or a
\* subclass that overrides only sample_async
NoSampler(cls) ==
    [pc |-> "new", cls |-> cls, env_name |-> "", seed |-> <<>>, has_env |-> FALSE,
     closed |-> <<>>, prebuilt |-> FALSE]
NoHandle == [exists |-> FALSE, cls |-> "", open |-> FALSE, log |-> <<>>, seed |-> <<>>]
NoSamplerRet == [op |-> "none", exc |-> "none", args |-> <<>>, value |-> <<>>]

SamplerIdle ==
    /\ sampler = NoSampler("Sampler")
    /\ senv = NoHandle
    /\ sret = NoSamplerRet

\* the instances in `inst`, each built by a constructor call with any task argument;
\* seed() in the constructor leaves np_random in an arbitrary state
InitEnvs(inst, built) ==
    /\ env \in [inst -> built]
    /\ np_random \in [inst -> RngStates]
    /\ lastArg = [e \in inst |-> <<>>]
    /\ seeded = [e \in inst |-> <<>>]
    /\ ret = NoRet
    /\ probe = <<>>

Init ==
    /\ variant \in Variants
    /\ std \in (IF variant = "GaussianBandit" THEN {0, DefaultStd} ELSE {DefaultStd})
    /\ ctrl_cost_weight \in
         (IF variant = "HalfCheetahVel" THEN {DefaultCtrlCostWeight, 2}
          ELSE {DefaultCtrlCostWeight})
    /\ InitEnvs(One, Constructed(variant))
    /\ SamplerIdle

-----------------------------------------------------------------------------
(* Environment operations *)

Call(e, op) == [NoRet EXCEPT !.e = e, !.op = op]

\* what a call on instance e does to the random sources: n draws from e's own
DrawFrom(e, n) == [np_random EXCEPT ![Source(e)] = Advance(@, n)]

\* reset_task of every variant: store the task, then read the variant's key
ResetTask(e, t) ==
    LET key == TaskKey(variant)
        stored == [env[e] EXCEPT !.task = t]
        done == IF key = "mean" THEN [stored EXCEPT !.means = t[key]]
                ELSE IF key = "velocity" THEN [stored EXCEPT !.goal_vel = t[key]]
                ELSE [stored EXCEPT !.goal_dir = t[key]]
    IN /\ env' = [env EXCEPT ![e] = IF key \in DOMAIN t THEN done ELSE stored]
       /\ lastArg' = [lastArg EXCEPT ![e] = <<t>>]
       /\ ret' = [Call(e, "reset_task") EXCEPT
                    !.exc = IF key \in DOMAIN t THEN "none" ELSE "KeyError"]
       /\ UNCHANGED <<variant, std, ctrl_cost_weight, np_random, seeded, probe, sampler, senv, sret>>

\* spaces.Discrete(n).contains(a)
ContainsNoLowerBound(n, a) == a < n
Contains(n, a) == 0 <= a /\ a < n

\* Python indexing of a sequence: 0-based, negative indices count from the end
InRange(seq, i) == -Len(seq) <= i /\ i < Len(seq)
Index(seq, i) == IF i >= 0 THEN seq[i + 1] ELSE seq[Len(seq) + i + 1]

\* BernoulliBanditEnv.step / GaussianBanditEnv.step
StepBandit(e, a) ==
    LET s == np_random[Source(e)]
        mean == Index(env[e].means, a)
        reward == IF variant = "BernoulliBandit" THEN Binomial(s, mean)
                  ELSE Normal(s, mean, std)
        call == [Call(e, "step") EXCEPT !.action = <<a>>]
    IN /\ variant \in Bandits
       /\ IF ~Contains(K, a)
          THEN /\ ret' = [call EXCEPT !.exc = "AssertionError"]
               /\ UNCHANGED <<np_random, seeded>>
          ELSE IF ~InRange(env[e].means, a)
          THEN /\ ret' = [call EXCEPT !.exc = "IndexError"]
               /\ UNCHANGED <<np_random, seeded>>
          ELSE /\ np_random' = DrawFrom(e, 1)
               /\ seeded' = [seeded EXCEPT ![e] = <<>>]
               /\ ret' = [call EXCEPT !.obs = <<0>>, !.reward = reward, !.done = TRUE,
                                      !.info = <<[task |-> env[e].task]>>,
                                      !.used = <<mean>>, !.drew = TRUE]
       /\ UNCHANGED <<variant, std, ctrl_cost_weight, env, lastArg, probe, sampler, senv, sret>>

\* BernoulliBanditEnv.reset / GaussianBanditEnv.reset
ResetBandit(e) ==
    /\ variant \in Bandits
    /\ ret' = [Call(e, "reset") EXCEPT !.obs = <<0>>]
    /\ UNCHANGED <<variant, std, ctrl_cost_weight, env, np_random, lastArg, seeded, probe, sampler, senv, sret>>

\* BernoulliBanditEnv.seed / GaussianBanditEnv.seed; seed is <<>> (None) or <<s>>
SeedBandit(e, seed) ==
    /\ variant \in Bandits
    /\ \E fresh \in RngStates :
         np_random' = [np_random EXCEPT ![Source(e)] =
                          IF seed = <<>> THEN fresh ELSE SeedState(seed[1])]
    /\ seeded' = [seeded EXCEPT ![e] = seed]
    /\ ret' = Call(e, "seed")
    /\ UNCHANGED <<variant, std, ctrl_cost_weight, env, lastArg, probe, sampler, senv, sret>>

\* reset(seed=...) of the locomotion environments (inherited): seeds np_random when a
\* seed is given, then reset_model draws the position noise and the velocity noise
ResetLocomotion(e, seed) ==
    /\ variant \in Locomotion
    /\ np_random' = [np_random EXCEPT ![Source(e)] =
                        Advance(IF seed = <<>> THEN @ ELSE SeedState(seed[1]), 2)]
    /\ seeded' = [seeded EXCEPT ![e] = seed]
    /\ env' = [env EXCEPT ![e].qpos = 0]
    /\ ret' = Call(e, "reset")
    /\ UNCHANGED <<variant, std, ctrl_cost_weight, lastArg, probe, sampler, senv, sret>>

\* the torque vectors tried: none, one actuator, two actuators
ActionVectors == {<<0, 0, 0, 0, 0, 0>>, <<1, 0, 0, 0, 0, 0>>, <<1, 0, -1, 0, 0, 0>>}

RECURSIVE SumSquares(_)
\* np.sum(np.square(action))
SumSquares(a) == IF a = <<>> THEN 0 ELSE a[1] * a[1] + SumSquares(Tail(a))

Abs(x) == IF x < 0 THEN -x ELSE x

\* what HalfCheetahVelEnv.step returns, given the x position before and after
VelStepReturnDoneAtGoal(en, a, before, after) ==
    LET forward_vel == after - before
        forward_reward == -1 * Abs(forward_vel - en.goal_vel)
        ctrl_cost == StepCtrlCostWeight * SumSquares(a)
    IN [reward |-> 20 * forward_reward - ctrl_cost, done |-> forward_vel = en.goal_vel,
        truncated |-> FALSE,
        info |-> <<[reward_forward |-> forward_reward, reward_ctrl |-> -ctrl_cost,
                    task |-> en.task]>>, used |-> <<en.goal_vel>>,
        vel |-> <<forward_vel>>]
VelStepReturn(en, a, before, after) ==
    LET forward_vel == after - before
        forward_reward == -1 * Abs(forward_vel - en.goal_vel)
        ctrl_cost == StepCtrlCostWeight * SumSquares(a)
    IN [reward |-> 20 * forward_reward - ctrl_cost, done |-> FALSE, truncated |-> FALSE,
        info |-> <<[reward_forward |-> forward_reward, reward_ctrl |-> -ctrl_cost,
                    task |-> en.task]>>, used |-> <<en.goal_vel>>,
        vel |-> <<forward_vel>>]

\* what HalfCheetahDirEnv.step returns
DirStepReturn(en, a, before, after) ==
    LET forward_vel == after - before
        forward_reward == en.goal_dir * forward_vel
        ctrl_cost == StepCtrlCostWeight * SumSquares(a)
    IN [reward |-> 20 * forward_reward - ctrl_cost, done |-> FALSE, truncated |-> FALSE,
        info |-> <<[reward_forward |-> forward_reward, reward_ctrl |-> -ctrl_cost,
                    task |-> en.task]>>, used |-> <<en.goal_dir>>,
        vel |-> <<forward_vel>>]

\* HalfCheetahVelEnv.step / HalfCheetahDirEnv.step: do_simulation moves qpos[0] to
\* any position `after` within the modelled range
StepLocomotion(e, a, after) ==
    LET before == env[e].qpos
        r == IF variant = "HalfCheetahVel" THEN VelStepReturn(env[e], a, before, after)
             ELSE DirStepReturn(env[e], a, before, after)
    IN /\ variant \in Locomotion
       /\ env' = [env EXCEPT ![e].qpos = after]
       /\ ret' = [Call(e, "step") EXCEPT !.action = a, !.reward = r.reward,
                    !.done = r.done, !.truncated = r.truncated, !.info = r.info,
                    !.used = r.used, !.vel = r.vel]
       /\ UNCHANGED <<variant, std, ctrl_cost_weight, np_random, lastArg, seeded, probe, sampler, senv, sret>>

\* the draws of sample_tasks: the i-th of the values drawn from state s on
DrawAt(s, i) == Advance(s, i - 1)

\* sample_tasks of every variant: the tasks drawn from state s
Tasks(v, s, n) ==
    IF v \in Bandits
    THEN [i \in 1..n |-> Dict("mean", [j \in 1..K |-> Rand(DrawAt(s, (i - 1) * K + j))])]
    ELSE IF v = "HalfCheetahVel"
    THEN [i \in 1..n |-> Dict("velocity", Uniform(DrawAt(s, i), Low, High))]
    ELSE [i \in 1..n |-> Dict("direction", 2 * Binomial(DrawAt(s, i), MeanScale \div 2) - 1)]

TaskDraws(v, n) == IF v \in Bandits THEN n * K ELSE n

SampleTasks(e, n) ==
    /\ np_random' = DrawFrom(e, TaskDraws(variant, n))
    /\ seeded' = [seeded EXCEPT ![e] = <<>>]
    /\ ret' = [Call(e, "sample_tasks") EXCEPT
                 !.tasks = Tasks(variant, np_random[Source(e)], n),
                 !.n = n, !.seed = seeded[e]]
    /\ UNCHANGED <<variant, std, ctrl_cost_weight, env, lastArg, probe, sampler, senv, sret>>

\* the caller keeps the tasks a freshly seeded environment returned
Keep ==
    /\ ret.op = "sample_tasks" /\ ret.seed # <<>>
    /\ probe' = <<[e |-> ret.e, seed |-> ret.seed, n |-> ret.n, tasks |-> ret.tasks]>>
    /\ UNCHANGED <<variant, std, ctrl_cost_weight, env, np_random, lastArg, seeded, ret, sampler, senv, sret>>

SeedArgs == {<<>>} \cup {<<s>> : s \in Seeds}

\* one environment driven through every operation
Next ==
    \E e \in One :
         \/ \E t \in TaskPool(variant) : ResetTask(e, t)
         \/ \E a \in -1..K : StepBandit(e, a)
         \/ ResetBandit(e)
         \/ \E seed \in SeedArgs : SeedBandit(e, seed)
         \/ \E seed \in SeedArgs : ResetLocomotion(e, seed)
         \/ \E a \in ActionVectors, after \in -MaxPos..MaxPos : StepLocomotion(e, a, after)
         \/ \E n \in 1..MaxTasks : SampleTasks(e, n)

Spec == Init /\ [][Next]_vars

\* two environments of one class, built with default arguments, interleaving the
\* operations that touch a random source
InitPair ==
    /\ variant \in Variants
    /\ std = DefaultStd
    /\ ctrl_cost_weight = DefaultCtrlCostWeight
    /\ InitEnvs(Envs, {IF variant \in Bandits THEN BanditInit(EmptyTask)
                       ELSE IF variant = "HalfCheetahVel"
                       THEN VelInit(<<"dict", Dict("velocity", DefaultVelocity)>>)
                       ELSE DirInit(EmptyTask)})
    /\ SamplerIdle

NextPair ==
    \/ \E e \in Envs :
         \/ \E a \in 0..(K - 1) : StepBandit(e, a)
         \/ \E seed \in SeedArgs : SeedBandit(e, seed)
         \/ \E seed \in SeedArgs : ResetLocomotion(e, seed)
         \/ \E n \in 1..MaxTasks : SampleTasks(e, n)
    \/ Keep

SpecPair == InitPair /\ [][NextPair]_vars

-----------------------------------------------------------------------------
(* The Sampler *)

\* hasattr(env, "seed"): the bandits define seed(), the locomotion classes do not
HasSeedAttr(cls) == cls \in Bandits

\* whether the class's reset accepts seed=...: the bandits' reset(self) does not
ResetTakesSeed(cls) == cls \in Locomotion

EnvNames == Variants \cup {"Unregistered-v0"}

SamplerClasses == {"Sampler", "ReturningSampler", "RaisingSampler"}

\* Sampler.__init__(env_name, env_kwargs, batch_size, policy, seed, env); batch_size
\* and policy are stored and not used. `prebuilt` says that env was passed in.
Construct(env_name, seed, prebuilt) ==
    LET obj == [sampler EXCEPT !.env_name = env_name, !.seed = seed, !.prebuilt = prebuilt]
        given == [NoHandle EXCEPT !.exists = TRUE, !.cls = env_name, !.open = TRUE]
        made == [given EXCEPT !.log = <<"make">>]
        handle == IF prebuilt THEN given ELSE made
        reset == [handle EXCEPT !.log = Append(@, "reset_seed"), !.seed = seed]
        afterSeed == IF HasSeedAttr(env_name) THEN reset ELSE handle
        closed == [afterSeed EXCEPT !.log = Append(@, "close"), !.open = FALSE]
        call == [NoSamplerRet EXCEPT !.op = "__init__"]
    IN /\ sampler.pc = "new"
       /\ prebuilt => env_name \in Variants
       /\ IF env_name \notin Variants
          THEN \* gym.make raises
               /\ sampler' = [obj EXCEPT !.pc = "failed"]
               /\ senv' = senv
               /\ sret' = [call EXCEPT !.exc = "Error"]
          ELSE IF HasSeedAttr(env_name) /\ ~ResetTakesSeed(env_name)
          THEN \* self.env.reset(seed=seed) raises
               /\ sampler' = [obj EXCEPT !.pc = "failed", !.has_env = TRUE]
               /\ senv' = handle
               /\ sret' = [call EXCEPT !.exc = "TypeError"]
          ELSE /\ sampler' = [obj EXCEPT !.pc = "constructed", !.has_env = TRUE,
                                         !.closed = <<FALSE>>]
               /\ senv' = closed
               /\ sret' = call
       /\ UNCHANGED envVars

\* what sample_async(args) does in class cls
SampleAsyncOutcome(cls, args) ==
    IF cls = "Sampler" THEN [exc |-> "NotImplementedError", value |-> <<>>]
    ELSE IF cls = "RaisingSampler" /\ args = <<>>
    THEN [exc |-> "ValueError", value |-> <<>>]
    ELSE [exc |-> "none", value |-> <<"episodes">> \o args]

\* what sample(args) does in class cls: return self.sample_async(*args, **kwargs)
SampleOutcomeOwnBody(cls, args) == [exc |-> "NotImplementedError", value |-> <<>>]
SampleOutcome(cls, args) == SampleAsyncOutcome(cls, args)

SamplerArgs == {<<>>, <<"tasks">>, <<"tasks", "params">>}

SampleAsync(args) ==
    LET out == SampleAsyncOutcome(sampler.cls, args)
    IN /\ sampler.pc = "constructed"
       /\ sret' = [op |-> "sample_async", exc |-> out.exc, args |-> args,
                   value |-> out.value]
       /\ UNCHANGED <<sampler, senv>>
       /\ UNCHANGED envVars

Sample(args) ==
    LET out == SampleOutcome(sampler.cls, args)
    IN /\ sampler.pc = "constructed"
       /\ sret' = [op |-> "sample", exc |-> out.exc, args |-> args, value |-> out.value]
       /\ UNCHANGED <<sampler, senv>>
       /\ UNCHANGED envVars

InitSampler ==
    /\ variant = "HalfCheetahVel"
    /\ std = DefaultStd
    /\ ctrl_cost_weight = DefaultCtrlCostWeight
    /\ InitEnvs({}, {})
    /\ sampler \in {NoSampler(c) : c \in SamplerClasses}
    /\ senv = NoHandle
    /\ sret = NoSamplerRet

NextSampler ==
    \/ \E env_name \in EnvNames, seed \in SeedArgs, prebuilt \in BOOLEAN :
         Construct(env_name, seed, prebuilt)
    \/ \E args \in SamplerArgs : SampleAsync(args)
    \/ \E args \in SamplerArgs : Sample(args)

SpecSampler == InitSampler /\ [][NextSampler]_vars

-----------------------------------------------------------------------------
(* Properties *)

\* the reward parameter instance en holds for the variant's key
Param(en) ==
    IF variant \in Bandits THEN en.means
    ELSE IF variant = "HalfCheetahVel" THEN en.goal_vel ELSE en.goal_dir

StepReturned == ret.op = "step" /\ ret.exc = "none"

\* C1: the reward of a step is computed only from the parameters of the task passed
\* to the most recent reset_task call, never from an earlier task.
C1_StepUsesLatestTask ==
    (StepReturned /\ lastArg[ret.e] # <<>>) =>
        LET t == lastArg[ret.e][1]
            key == TaskKey(variant)
        IN /\ key \in DOMAIN t
           /\ ret.used = <<IF variant \in Bandits THEN Index(t[key], ret.action[1])
                           ELSE t[key]>>

\* C2: a reset_task that fails for a task lacking the variant's field leaves the stored
\* task and the stored reward parameter exactly as they were before the call.
C2_FailedResetTaskChangesNothing ==
    [][(ret'.op = "reset_task" /\ ret'.exc # "none") => env' = env]_vars

\* C3: a bandit step with an action outside Discrete(k) fails at entry: no reward is
\* drawn, the random source is not advanced, the task and the means are unchanged.
C3_InvalidActionNoPartialStep ==
    [][(ret'.op = "step" /\ variant \in Bandits /\ ret'.action[1] \notin 0..(K - 1)) =>
          /\ ret'.exc = "AssertionError"
          /\ ~ret'.drew
          /\ UNCHANGED <<env, np_random>>]_vars

C3_Witness ==
    /\ ret.op = "step" /\ variant \in Bandits
    /\ ret.action[1] \notin 0..(K - 1)
    /\ ret.exc = "AssertionError"
    /\ lastArg[ret.e] # <<>>

\* C4: every bandit step with a valid action returns done = True and the observation
\* [0.0], as does every reset; a Bernoulli arm whose mean in the active task is 1.0 pays
\* 1 and one whose mean is 0.0 pays 0.
C4_BanditStepTerminal ==
    /\ (ret.op = "step" /\ variant \in Bandits /\ ret.action[1] \in 0..(K - 1)) =>
          /\ ret.exc = "none"
          /\ ret.done
          /\ ret.obs = <<0>>
    /\ (ret.op = "reset" /\ variant \in Bandits) => ret.obs = <<0>>
    /\ (StepReturned /\ variant = "BernoulliBandit" /\ "mean" \in DOMAIN env[ret.e].task) =>
          LET mean == env[ret.e].task["mean"][ret.action[1] + 1]
          IN /\ mean = MeanScale => ret.reward = 1
             /\ mean = 0 => ret.reward = 0

C4_Witness ==
    /\ StepReturned /\ variant = "BernoulliBandit"
    /\ env[ret.e].task = Dict("mean", MeanVec(MeanScale, 0))
    /\ ret.action = <<1>> /\ ret.reward = 0 /\ ret.done
    /\ lastArg[ret.e] # <<>>

\* C5: every step of a locomotion environment returns done = False and
\* truncated = False.
C5_LocomotionNeverTerminates ==
    (ret.op = "step" /\ variant \in Locomotion) =>
        ret.exc = "none" /\ ~ret.done /\ ~ret.truncated

C5_Witness ==
    /\ StepReturned /\ variant = "HalfCheetahVel"
    /\ ret.vel = <<env[ret.e].goal_vel>>
    /\ env[ret.e].goal_vel # 0
    /\ ~ret.done

\* C6: a Sampler built without a pre-built environment makes one, seeds it and closes
\* it, in that order; once the constructor is over the Sampler holds no open
\* environment and its closed flag says the environment was released.
C6_SamplerReleasesEnvironment ==
    (sampler.pc # "new" /\ ~sampler.prebuilt /\ sret.exc # "Error") =>
        /\ sampler.pc = "constructed"
        /\ senv.log = <<"make", "reset_seed", "close">>
        /\ senv.seed = sampler.seed
        /\ ~senv.open
        /\ sampler.closed = <<TRUE>>

\* C7: on the base Sampler sample and sample_async fail with NotImplementedError for
\* any arguments; in a subclass that overrides only sample_async, sample returns what
\* sample_async returns and fails when it fails.
C7_SampleDelegates ==
    /\ (sret.op \in {"sample", "sample_async"} /\ sampler.cls = "Sampler") =>
          sret.exc = "NotImplementedError"
    /\ sret.op = "sample" =>
          /\ sret.exc = SampleAsyncOutcome(sampler.cls, sret.args).exc
          /\ sret.value = SampleAsyncOutcome(sampler.cls, sret.args).value

C7_Witness ==
    /\ sret.op = "sample" /\ sampler.cls = "ReturningSampler"
    /\ sret.args = <<"tasks">>
    /\ sret.exc = "none"
    /\ sret.value = <<"episodes", "tasks">>

\* C8: two environments of one variant seeded with the same seed return the same
\* sample_tasks(N), whatever was done to another instance in between.
C8_SeededTasksAgree ==
    (ret.op = "sample_tasks" /\ ret.seed # <<>> /\ probe # <<>>
       /\ probe[1].seed = ret.seed /\ probe[1].n = ret.n) =>
        ret.tasks = probe[1].tasks

C8_Witness ==
    /\ ret.op = "sample_tasks" /\ ret.seed # <<>> /\ probe # <<>>
    /\ probe[1].seed = ret.seed /\ probe[1].n = ret.n
    /\ probe[1].e = 1 /\ ret.e = 2
    /\ ret.n = MaxTasks
    /\ ret.tasks = probe[1].tasks

\* C9: a locomotion step's reward is reward_task minus 0.5 * ctrl_cost_weight *
\* sum(action^2) with the ctrl_cost_weight the environment was constructed with;
\* info reports reward_forward = reward_task and reward_ctrl = -control cost.
C9_RewardUsesConstructedWeight ==
    (StepReturned /\ variant \in Locomotion) =>
        LET reward_task == IF variant = "HalfCheetahVel"
                           THEN -1 * Abs(ret.vel[1] - env[ret.e].goal_vel)
                           ELSE env[ret.e].goal_dir * ret.vel[1]
            control_cost == ctrl_cost_weight * SumSquares(ret.action)
        IN /\ ret.reward = 20 * reward_task - control_cost
           /\ ret.info[1].reward_forward = reward_task
           /\ ret.info[1].reward_ctrl = -control_cost

\* C10: in every reachable state the reward parameter step uses equals the
\* corresponding field of the stored task that step echoes in info["task"].
C10_ParameterMatchesStoredTask ==
    \A e \in DOMAIN env :
        /\ TaskKey(variant) \in DOMAIN env[e].task
        /\ Param(env[e]) = env[e].task[TaskKey(variant)]

====
